---- MODULE Spec2Model ----
(***************************************************************************)
(* Model of the deepresearch command line client                           *)
(* (src/deepresearch_cli/cli.py) and of the deep_research tool of the      *)
(* protocol server (src/mcp_deepresearch/server.py).                       *)
(*                                                                         *)
(* Text is a sequence of tokens.  A token is either one of the characters  *)
(* "-" and "\n", or a chunk of literal text containing neither, so that    *)
(* the occurrences of the markdown rule "---" in a text are exactly the    *)
(* runs of three "-" tokens.                                               *)
(*                                                                         *)
(* Money is counted in units of 1e-9 dollar and prices in units of 1e-3    *)
(* dollar per million tokens, so that `tokens * price / 1_000_000` dollars *)
(* is the integer `tokens * price` of the model.                           *)
(***************************************************************************)
EXTENDS Integers, Sequences, FiniteSets, TLC

VARIABLES
    pc,              \* position of the invocation in main / conduct_research
    args,            \* the parsed command line (arguments of conduct_research)
    api_key,         \* whether OPENAI_API_KEY is set
    dirs,            \* the directories that exist (absolute paths)
    logfile,         \* whether the companion log file exists
    report,          \* the report file: [exists, text]
    run,             \* number of the invocation (1, 2, ...)
    enhanced_query,  \* conduct_research's enhanced_query
    response_id,     \* response.id of the submitted research request
    calls,           \* the calls made to the API, in order: [op, model, id, input, outcome]
    status,          \* what the latest status poll observed
    polls,           \* number of status polls of this invocation
    sleeps,          \* number of asyncio.sleep(30) of this invocation
    usage,           \* final_response.usage
    research_result, \* conduct_research's research_result
    cost_info,       \* conduct_research's cost_info
    writes,          \* number of times this invocation wrote the report
    interrupted,     \* whether an interruption arrived during conduct_research
    raised,          \* the exception that left conduct_research, or "none"
    result,          \* the value conduct_research returned (<<>> = not yet)
    exit_code,       \* exit status of the process (-1 = still running)
    message,         \* what main printed last
    srv_pc,          \* position of the deep_research tool call
    srv_args,        \* arguments of the deep_research tool call
    srv_request,     \* the chat completion request sent: [sent, system, user]
    srv_notes,       \* notifications sent through ctx, in order
    srv_out          \* outcome of the tool call: [kind, type, text]

cliVars == <<pc, args, api_key, dirs, logfile, report, run, enhanced_query,
             response_id, calls, status, polls, sleeps, usage, research_result, cost_info,
             writes, interrupted, raised, result, exit_code, message>>
srvVars == <<srv_pc, srv_args, srv_request, srv_notes, srv_out>>
vars == <<pc, args, api_key, dirs, logfile, report, run, enhanced_query,
          response_id, calls, status, polls, sleeps, usage, research_result, cost_info,
          writes, interrupted, raised, result, exit_code, message,
          srv_pc, srv_args, srv_request, srv_notes, srv_out>>

----------------------------------------------------------------------------
(* Bounds *)

MaxPolls == 3
MaxRuns == 2
MaxTok == 2
MaxTextLen == 3

----------------------------------------------------------------------------
(* Text *)

None == <<>>

NL == "\n"

Dash == "-"

Rule == <<Dash, Dash, Dash>>

RECURSIVE Join(_, _)
\* sep.join(parts)
Join(parts, sep) ==
    IF Len(parts) = 0 THEN <<>>
    ELSE IF Len(parts) = 1 THEN parts[1]
    ELSE parts[1] \o sep \o Join(Tail(parts), sep)

\* s.startswith(prefix)
StartsWith(s, prefix) ==
    /\ Len(s) >= Len(prefix)
    /\ SubSeq(s, 1, Len(prefix)) = prefix

\* needle occurs in s at position i
OccursAt(s, needle, i) ==
    /\ i >= 1
    /\ i + Len(needle) - 1 <= Len(s)
    /\ SubSeq(s, i, i + Len(needle) - 1) = needle

\* needle in s
Contains(s, needle) == \E i \in 1..(Len(s) + 1) : OccursAt(s, needle, i)

\* Python truthiness of an Optional[str]
Truthy(s) == Len(s) > 0

----------------------------------------------------------------------------
(* Paths (pathlib).  A path is [abs, parts]; a directory of the file      *)
(* system is the sequence of the parts of its absolute path.               *)

Cwd == [abs |-> TRUE, parts |-> <<"home">>]

\* Path(p).parent
Parent(p) ==
    IF Len(p.parts) = 0 THEN p
    ELSE [abs |-> p.abs, parts |-> SubSeq(p.parts, 1, Len(p.parts) - 1)]

\* Path(p).absolute()
Absolute(p) ==
    IF p.abs THEN p ELSE [abs |-> TRUE, parts |-> Cwd.parts \o p.parts]

\* p.relative_to(base) raises ValueError
RelativeToRaises(p, base) ==
    \/ p.abs # base.abs
    \/ ~StartsWith(p.parts, base.parts)

\* the directories after d.mkdir(parents=True, exist_ok=True)
Mkdir(ds, d) ==
    ds \cup { SubSeq(Absolute(d).parts, 1, n) : n \in 0..Len(Absolute(d).parts) }

\* the directory d exists
IsDir(ds, d) == Absolute(d).parts \in ds

\* the log file of setup_file_logging: output_dir / f"{stem}_deepresearch.log"
LogPath(output_path) ==
    [abs |-> output_path.abs,
     parts |-> Parent(output_path).parts \o <<"_deepresearch.log">>]

----------------------------------------------------------------------------
(* The query sent to the research API *)

\* str.lower() on the focus words of the model
Lower(s) ==
    [i \in 1..Len(s) |-> IF s[i] = "Academic" THEN "academic" ELSE s[i]]

focus_instructions ==
    [k \in {<<"academic">>, <<"business">>, <<"news">>, <<"reports">>, <<"technical">>} |->
        CASE k = <<"academic">> ->
                <<"Prioritize peer", Dash, "reviewed research, academic papers, official publications, and scholarly sources.">>
          [] k = <<"business">> ->
                <<"Focus on industry reports, market research, financial data, company reports, and business analytics.">>
          [] k = <<"news">> ->
                <<"Emphasize recent news articles, press releases, official statements, and current events coverage.">>
          [] k = <<"reports">> ->
                <<"Concentrate on official reports, government documents, white papers, and institutional publications.">>
          [] OTHER ->
                <<"Focus on technical documentation, specifications, standards, and expert technical sources.">>]

source_instruction(focus) ==
    IF Truthy(focus) /\ Lower(focus) \in DOMAIN focus_instructions
    THEN focus_instructions[Lower(focus)]
    ELSE IF Truthy(focus)
    THEN <<"Prioritize sources related to: ">> \o focus \o <<". Include inline citations.">>
    ELSE <<"Include reliable, up", Dash, "to", Dash, "date sources with inline citations.">>

_build_basic_query(query, context, focus, format_type) ==
    Join(<< <<"Research Query: ">> \o query >>
         \o (IF Truthy(context) THEN << <<"Background Context: ">> \o context >> ELSE <<>>)
         \o << <<"Source Requirements: ">> \o source_instruction(focus) >>
         \o (IF Truthy(format_type) THEN << <<"Output Format: ">> \o format_type >> ELSE <<>>)
         \o << <<"Requirements:">>,
               <<Dash, " Include specific figures, trends, statistics, and measurable outcomes">>,
               <<Dash, " Provide inline citations and return all source metadata">>,
               <<Dash, " Be analytical and avoid generalities">>,
               <<Dash, " Use clear, professional language">>,
               <<Dash, " Structure information with appropriate headers and formatting">> >>,
         <<NL, NL>>)

\* input_text of enhance_research_prompt
enhance_input_text(query, context, focus, format_type) ==
    Join(<< <<"Research Query: ">> \o query >>
         \o (IF Truthy(context) THEN << <<"Background Context: ">> \o context >> ELSE <<>>)
         \o (IF Truthy(focus) THEN << <<"Source Focus: ">> \o focus >> ELSE <<>>)
         \o (IF Truthy(format_type) THEN << <<"Preferred Output Format: ">> \o format_type >> ELSE <<>>),
         <<NL, NL>>)

\* variant: the fallback is the labelled prompt instead of the bare query
enhance_research_prompt_labelled(query, outcome, enhanced) ==
    IF outcome = "ok" THEN enhanced ELSE <<"Research Query: ">> \o query

\* What enhance_research_prompt returns: the auxiliary model's text, or the
\* original query when the call raised an Exception.
enhance_research_prompt(query, outcome, enhanced) ==
    IF outcome = "ok" THEN enhanced ELSE query

----------------------------------------------------------------------------
(* Cost estimation *)

O3 == <<"o3", Dash, "deep", Dash, "research">>

O4Mini == <<"o4", Dash, "mini", Dash, "deep", Dash, "research">>

Gpt5Mini == <<"gpt", Dash, "5", Dash, "mini">>

\* the price table, in 1e-3 dollar per million tokens
pricing ==
    [m \in {O3, O4Mini, Gpt5Mini} |->
        CASE m = O3     -> [input |-> 10000, cached_input |-> 2500, output |-> 40000]
          [] m = O4Mini -> [input |-> 2000,  cached_input |-> 500,  output |-> 8000]
          [] OTHER      -> [input |-> 250,   cached_input |-> 25,   output |-> 2000]]

\* A usage record is a dict with integer values; a key that is missing has
\* the value Absent.  details is "absent" (no prompt_tokens_details key),
\* "dict" (a dict, whose cached_tokens key may be Absent) or "none" (the
\* key is there with the value None).  input_details_cached is the
\* cached_tokens of an input_tokens_details entry, which _calculate_cost
\* does not read.  present is its truthiness in
\* `if usage_data:` (FALSE for None and for the empty dict).
Absent == -1

NoUsage ==
    [present |-> FALSE, prompt_tokens |-> Absent, input_tokens |-> Absent,
     completion_tokens |-> Absent, output_tokens |-> Absent, details |-> "absent",
     cached_tokens |-> Absent, input_details_cached |-> Absent,
     total_tokens |-> Absent]

\* d.get(key, default)
Get(v, default) == IF v = Absent THEN default ELSE v

\* Python's `a or b` on integers
Or(a, b) == IF a # 0 THEN a ELSE b

NoCost ==
    [kind |-> "none", input_tokens |-> 0, cached_tokens |-> 0, output_tokens |-> 0,
     total_tokens |-> 0, input_cost |-> 0, cached_cost |-> 0, output_cost |-> 0,
     total_cost |-> 0, model |-> None]

\* variant: the price table is indexed without the membership test
_calculate_cost_raises_unchecked(usage_data, model) ==
    \/ model \notin DOMAIN pricing
    \/ usage_data.details = "none"

\* _calculate_cost raises: .get("cached_tokens", 0) on a None prompt_tokens_details
_calculate_cost_raises(usage_data, model) ==
    /\ model \in DOMAIN pricing
    /\ usage_data.details = "none"

\* variant: cached tokens are billed at the full input price as well
input_cost_of_undiscounted(input_tokens, cached_tokens, model_pricing) ==
    input_tokens * model_pricing.input

input_cost_of(input_tokens, cached_tokens, model_pricing) ==
    (input_tokens - cached_tokens) * model_pricing.input

cached_cost_of(cached_tokens, model_pricing) ==
    IF cached_tokens # 0 THEN cached_tokens * model_pricing.cached_input ELSE 0

output_cost_of(output_tokens, model_pricing) ==
    output_tokens * model_pricing.output

total_cost_of(input_cost, cached_cost, output_cost) ==
    input_cost + cached_cost + output_cost

\* _calculate_cost, when it does not raise
_calculate_cost(usage_data, model) ==
    IF model \notin DOMAIN pricing
    THEN [NoCost EXCEPT !.kind = "error", !.model = model]
    ELSE
        LET model_pricing == pricing[model]
            input_tokens == Or(Get(usage_data.prompt_tokens, 0), Get(usage_data.input_tokens, 0))
            output_tokens == Or(Get(usage_data.completion_tokens, 0), Get(usage_data.output_tokens, 0))
            cached_tokens == IF usage_data.details = "dict"
                             THEN Get(usage_data.cached_tokens, 0) ELSE 0
            total_tokens == Get(usage_data.total_tokens, input_tokens + output_tokens)
            input_cost == input_cost_of(input_tokens, cached_tokens, model_pricing)
            cached_cost == cached_cost_of(cached_tokens, model_pricing)
            output_cost == output_cost_of(output_tokens, model_pricing)
        IN  [kind |-> "ok",
             input_tokens |-> input_tokens,
             cached_tokens |-> cached_tokens,
             output_tokens |-> output_tokens,
             total_tokens |-> total_tokens,
             input_cost |-> input_cost,
             cached_cost |-> cached_cost,
             output_cost |-> output_cost,
             total_cost |-> total_cost_of(input_cost, cached_cost, output_cost),
             model |-> model]

----------------------------------------------------------------------------
(* The report *)

\* the decimal digits of n, zero-padded to width w
RECURSIVE Digits(_, _)
Digits(n, w) ==
    IF w = 0 THEN <<>> ELSE Digits(n \div 10, w - 1) \o <<ToString(n % 10)>>

\* f"{n:,}" for n >= 0
RECURSIVE FmtThousands(_)
FmtThousands(n) ==
    IF n < 1000 THEN <<ToString(n)>>
    ELSE FmtThousands(n \div 1000) \o <<",">> \o Digits(n % 1000, 3)

\* f"{x:.4f}" of an amount of c units of 1e-9 dollar (ties away from zero)
Fmt4f(c) ==
    LET a == IF c < 0 THEN 0 - c ELSE c
        q == (a + 50000) \div 100000
    IN  (IF c < 0 THEN <<Dash>> ELSE <<>>)
        \o <<ToString(q \div 10000), ".">> \o Digits(q % 10000, 4)

\* datetime.now().strftime("%Y-%m-%d %H:%M:%S")
timestamp == <<"2025", Dash, "01", Dash, "01 00:00:00">>

cost_section(cost_info_) ==
    IF cost_info_.kind = "ok"
    THEN <<NL, NL, "## Token Usage & Cost", NL, NL>>
         \o <<"**Input Tokens:** ">> \o FmtThousands(cost_info_.input_tokens) \o <<NL>>
         \o <<"**Cached Tokens:** ">> \o FmtThousands(cost_info_.cached_tokens) \o <<NL>>
         \o <<"**Output Tokens:** ">> \o FmtThousands(cost_info_.output_tokens) \o <<NL>>
         \o <<"**Total Tokens:** ">> \o FmtThousands(cost_info_.total_tokens) \o <<NL, NL>>
         \o <<"**Input Cost:** $">> \o Fmt4f(cost_info_.input_cost) \o <<NL>>
         \o <<"**Cached Cost:** $">> \o Fmt4f(cost_info_.cached_cost) \o <<NL>>
         \o <<"**Output Cost:** $">> \o Fmt4f(cost_info_.output_cost) \o <<NL>>
         \o <<"**Total Cost:** $">> \o Fmt4f(cost_info_.total_cost)
    ELSE <<>>

\* the part of the report before the rule that ends the header
report_header(query, model, cost_info_) ==
    <<"# Deep Research Results", NL, NL, "**Query:** ">> \o query
    \o <<NL, "**Generated:** ">> \o timestamp
    \o <<NL, "**Model:** ">> \o model
    \o <<NL, "**Tool:** deepresearch", Dash, "cli">> \o cost_section(cost_info_)
    \o <<NL, NL>>

\* variant: the content is stripped of a leading and a trailing newline
report_body_stripped(content) ==
    LET a == IF Len(content) > 0 /\ content[1] = NL THEN 2 ELSE 1
        b == IF Len(content) > 0 /\ content[Len(content)] = NL
             THEN Len(content) - 1 ELSE Len(content)
    IN  <<NL, NL>> \o SubSeq(content, a, b) \o <<NL, NL>>

\* the part of the report between the header's rule and the footer's rule
report_body(content) == <<NL, NL>> \o content \o <<NL, NL>>

report_footer ==
    <<NL, NL, "*Generated using OpenAI Deep Research via deepresearch", Dash, "cli*", NL>>

_format_results(content, query, model, cost_info_) ==
    report_header(query, model, cost_info_) \o Rule
    \o report_body(content) \o Rule \o report_footer

----------------------------------------------------------------------------
(* Exceptions and the handlers of conduct_research and main *)

\* isinstance(exc, Exception); KeyboardInterrupt (and the CancelledError that
\* asyncio.run turns into it) derives from BaseException only
IsException(exc) ==
    exc \in {"APIError", "ValueError", "AttributeError", "OSError", "McpError"}

\* variant: a bare `except:` in the poll loop
PollHandlerCatches_bare(exc) == TRUE

\* `except Exception as poll_error` of the poll loop
PollHandlerCatches(exc) == IsException(exc)

\* `except Exception as e` around the body of conduct_research
OuterHandlerCatches(exc) == IsException(exc)

\* variant: the poll loop has no handler of its own
Propagate_no_poll_handler(exc, site) ==
    IF site \in {"poll_try", "try"} /\ OuterHandlerCatches(exc) THEN "return_error"
    ELSE "raise"

\* where an exception raised at a site of conduct_research ends up
Propagate(exc, site) ==
    IF site = "poll_try" /\ PollHandlerCatches(exc) THEN "sleep_handler"
    ELSE IF site \in {"poll_try", "try"} /\ OuterHandlerCatches(exc) THEN "return_error"
    ELSE "raise"

ErrorResult(exc) == <<"Error:", " Deep Research API error: ", exc>>

ResearchFailed == <<"Research failed">>

\* variant: every status but "failed" ends the loop
status_branch_eager(st) ==
    IF st = "failed" THEN "return_failed" ELSE "break"

\* variant: a failed job is polled again like a pending one
status_branch_retry(st) ==
    IF st = "completed" THEN "break" ELSE "sleep"

\* the branch the poll loop takes on a status response
status_branch(st) ==
    IF st = "completed" THEN "break"
    ELSE IF st = "failed" THEN "return_failed"
    ELSE "sleep"

\* exit status after conduct_research returned result
exit_of_result(res) == IF StartsWith(res, <<"Error:">>) THEN 1 ELSE 0

\* exit status after an exception left asyncio.run
exit_of_exception(exc) == IF exc = "KeyboardInterrupt" THEN 130 ELSE 1

\* variant: the report is written inside the poll loop, which goes on
after_write_in_loop == "poll"

\* where conduct_research goes after the report is written
after_write == "returned"

----------------------------------------------------------------------------
(* Inputs of the command line client *)

\* the texts of a command line: query, --context, --focus, --format
TextArgs ==
    { [query |-> <<"climate">>, context |-> None, focus |-> None, format_type |-> None],
      [query |-> <<"climate">>, context |-> <<"for a decision">>,
       focus |-> <<"Academic">>, format_type |-> <<"summary">>],
      [query |-> <<"Error:", " codes">>, context |-> None, focus |-> <<"blogs">>,
       format_type |-> None],
      [query |-> <<"Error:", " codes">>, context |-> <<"for a decision">>,
       focus |-> None, format_type |-> <<"summary">>] }

UnpricedModel == <<"gpt", Dash, "4o">>

Models == {O3, O4Mini, UnpricedModel}

OutputPaths ==
    { [abs |-> FALSE, parts |-> <<"r.md">>],
      [abs |-> FALSE, parts |-> <<"out", "r.md">>],
      [abs |-> TRUE,  parts |-> <<"home", "out", "r.md">>],
      [abs |-> TRUE,  parts |-> <<"tmp", "out", "r.md">>] }

EnhancedTexts == {<<"I want a detailed report on the topic">>}

ResponseIds == {<<"resp_1">>, <<"resp_2">>}

ResultTexts == {<<"findings">>, <<"Error:", " none found">>}

UsageSamples ==
    { NoUsage,
      [NoUsage EXCEPT !.present = TRUE, !.input_tokens = MaxTok,
                      !.output_tokens = 1, !.total_tokens = MaxTok + 1],
      [NoUsage EXCEPT !.present = TRUE, !.prompt_tokens = MaxTok,
                      !.completion_tokens = 1, !.details = "dict", !.cached_tokens = 1],
      [NoUsage EXCEPT !.present = TRUE, !.input_tokens = 1, !.details = "none"] }

NoReport == [exists |-> FALSE, text |-> <<>>]

InitialDirs == {<<>>, <<"home">>, <<"tmp">>}

\* the state conduct_research starts an invocation in
FreshInvocation ==
    /\ enhanced_query = None
    /\ response_id = None
    /\ calls = <<>>
    /\ status = "none"
    /\ polls = 0
    /\ sleeps = 0
    /\ usage = NoUsage
    /\ research_result = None
    /\ cost_info = NoCost
    /\ writes = 0
    /\ interrupted = FALSE
    /\ raised = "none"
    /\ result = None
    /\ exit_code = -1
    /\ message = "none"

ServerIdle ==
    /\ srv_pc = "idle"
    /\ srv_args = [query |-> None, context |-> None, research_depth |-> None,
                   domain_restrictions |-> None, output_format |-> None, ctx |-> FALSE]
    /\ srv_request = [sent |-> FALSE, system |-> None, user |-> None]
    /\ srv_notes = <<>>
    /\ srv_out = [kind |-> "none", type |-> "none", text |-> None]

Init ==
    /\ pc = "main"
    /\ args \in { [query |-> t.query, context |-> t.context, focus |-> t.focus,
                    format_type |-> t.format_type, model |-> m, background |-> b,
                    enhance_prompt |-> e, output_path |-> o] :
                   t \in TextArgs, m \in Models, b \in BOOLEAN, e \in BOOLEAN,
                   o \in OutputPaths }
    /\ api_key \in BOOLEAN
    /\ dirs = InitialDirs
    /\ logfile = FALSE
    /\ report = NoReport
    /\ run = 1
    /\ FreshInvocation
    /\ ServerIdle

----------------------------------------------------------------------------
(* The command line client *)

\* an exception exc is raised at a site of conduct_research
Throw(exc, site) ==
    LET to == Propagate(exc, site) IN
    /\ pc' = (CASE to = "sleep_handler" -> "sleep_handler"
                [] to = "return_error" -> "returned"
                [] OTHER -> "raised")
    /\ result' = (IF to = "return_error" THEN ErrorResult(exc) ELSE result)
    /\ raised' = (IF to = "raise" THEN exc ELSE raised)

\* main, up to the call of conduct_research: the credential check
Main ==
    /\ pc = "main"
    /\ IF api_key
       THEN /\ pc' = "setup"
            /\ UNCHANGED <<exit_code, message>>
       ELSE /\ pc' = "exit"
            /\ exit_code' = 1
            /\ message' = "OPENAI_API_KEY environment variable is required"
    /\ UNCHANGED <<args, api_key, dirs, logfile, report, run, enhanced_query,
                   response_id, calls, status, polls, sleeps, usage,
                   research_result, cost_info, writes, interrupted, raised, result>>
    /\ UNCHANGED srvVars

\* conduct_research before its try block: setup_file_logging and the
\* creation of the output directory
Setup ==
    /\ pc = "setup"
    /\ dirs' = Mkdir(dirs, Parent(args.output_path))
    /\ logfile' = TRUE
    /\ IF RelativeToRaises(LogPath(args.output_path), Cwd)
       THEN Throw("ValueError", "setup")
       ELSE /\ pc' = (IF args.enhance_prompt THEN "enhance" ELSE "build")
            /\ UNCHANGED <<result, raised>>
    /\ UNCHANGED <<args, api_key, report, run, enhanced_query, response_id,
                   calls, status, polls, sleeps, usage, research_result,
                   cost_info, writes, interrupted, exit_code, message>>
    /\ UNCHANGED srvVars

\* enhance_research_prompt: one call of the auxiliary model
Enhance ==
    /\ pc = "enhance"
    /\ \E outcome \in {"ok", "raise"} : \E enhanced \in EnhancedTexts :
        /\ calls' = Append(calls, [op |-> "enhance", model |-> Gpt5Mini, id |-> None,
                                   input |-> enhance_input_text(args.query, args.context,
                                                                args.focus, args.format_type),
                                   outcome |-> outcome])
        /\ enhanced_query' = enhance_research_prompt(args.query, outcome, enhanced)
    /\ pc' = "submit"
    /\ UNCHANGED <<args, api_key, dirs, logfile, report, run, response_id,
                   status, polls, sleeps, usage, research_result, cost_info,
                   writes, interrupted, raised, result, exit_code, message>>
    /\ UNCHANGED srvVars

\* the prompt when enhancement is disabled
Build ==
    /\ pc = "build"
    /\ enhanced_query' = _build_basic_query(args.query, args.context, args.focus,
                                            args.format_type)
    /\ pc' = "submit"
    /\ UNCHANGED <<args, api_key, dirs, logfile, report, run, response_id,
                   calls, status, polls, sleeps, usage, research_result,
                   cost_info, writes, interrupted, raised, result, exit_code, message>>
    /\ UNCHANGED srvVars

\* client.responses.create(...) and, in synchronous mode, the reading of the
\* inline result, which raises when the response holds no result text
Submit ==
    /\ pc = "submit"
    /\ \E id \in ResponseIds : \E outcome \in {"ok", "raise"} :
        /\ calls' = Append(calls, [op |-> "create", model |-> args.model, id |-> id,
                                   input |-> enhanced_query, outcome |-> outcome])
        /\ \/ /\ outcome = "raise"
              /\ Throw("APIError", "try")
              /\ UNCHANGED <<response_id, usage, research_result>>
           \/ /\ outcome = "ok"
              /\ args.background
              /\ response_id' = id
              /\ pc' = "poll"
              /\ UNCHANGED <<usage, research_result, result, raised>>
           \/ /\ outcome = "ok"
              /\ ~args.background
              /\ response_id' = id
              /\ \E text \in ResultTexts : research_result' = text
              /\ \E u \in UsageSamples : usage' = u
              /\ pc' = "cost"
              /\ UNCHANGED <<result, raised>>
           \/ /\ outcome = "ok"
              /\ ~args.background
              /\ response_id' = id
              /\ Throw("AttributeError", "try")
              /\ UNCHANGED <<usage, research_result>>
    /\ UNCHANGED <<args, api_key, dirs, logfile, report, run, enhanced_query,
                   status, polls, sleeps, cost_info, writes, interrupted, exit_code,
                   message>>
    /\ UNCHANGED srvVars

\* one iteration of the poll loop, up to its sleep
Poll ==
    /\ pc = "poll"
    /\ polls < MaxPolls
    /\ polls' = polls + 1
    /\ \/ /\ status' = "error"
          /\ Throw("APIError", "poll_try")
          /\ UNCHANGED <<usage, research_result>>
       \/ /\ status' = "nostatus"
          /\ pc' = "sleep"
          /\ UNCHANGED <<usage, research_result, result, raised>>
       \/ \E st \in {"in_progress", "completed", "failed"} :
          /\ status' = st
          /\ CASE status_branch(st) = "break" ->
                    \/ /\ \E text \in ResultTexts : research_result' = text
                       /\ \E u \in UsageSamples : usage' = u
                       /\ pc' = "cost"
                       /\ UNCHANGED <<result, raised>>
                    \/ /\ Throw("AttributeError", "poll_try")
                       /\ UNCHANGED <<usage, research_result>>
               [] status_branch(st) = "return_failed" ->
                    /\ result' = ResearchFailed
                    /\ pc' = "returned"
                    /\ UNCHANGED <<usage, research_result, raised>>
               [] OTHER ->
                    /\ pc' = "sleep"
                    /\ UNCHANGED <<usage, research_result, result, raised>>
    /\ calls' = Append(calls, [op |-> "retrieve", model |-> None, id |-> response_id,
                               input |-> None,
                               outcome |-> IF status' = "error" THEN "raise" ELSE "ok"])
    /\ UNCHANGED <<args, api_key, dirs, logfile, report, run, enhanced_query,
                   response_id, sleeps, cost_info, writes, interrupted,
                   exit_code, message>>
    /\ UNCHANGED srvVars

\* asyncio.sleep(30), in the loop body or in the handler of a polling error
Sleep ==
    /\ pc \in {"sleep", "sleep_handler"}
    /\ sleeps' = sleeps + 1
    /\ pc' = "poll"
    /\ UNCHANGED <<args, api_key, dirs, logfile, report, run, enhanced_query,
                   response_id, calls, status, polls, usage, research_result,
                   cost_info, writes, interrupted, raised, result, exit_code,
                   message>>
    /\ UNCHANGED srvVars

\* the usage of the final response and its cost
Cost ==
    /\ pc = "cost"
    /\ IF usage.present
       THEN IF _calculate_cost_raises(usage, args.model)
            THEN /\ Throw("AttributeError", "try")
                 /\ UNCHANGED cost_info
            ELSE /\ cost_info' = _calculate_cost(usage, args.model)
                 /\ pc' = "write"
                 /\ UNCHANGED <<result, raised>>
       ELSE /\ cost_info' = NoCost
            /\ pc' = "write"
            /\ UNCHANGED <<result, raised>>
    /\ UNCHANGED <<args, api_key, dirs, logfile, report, run, enhanced_query,
                   response_id, calls, status, polls, sleeps, usage,
                   research_result, writes, interrupted, exit_code, message>>
    /\ UNCHANGED srvVars

\* the report is written and conduct_research returns the research text;
\* open() may fail
Write ==
    /\ pc = "write"
    /\ \/ /\ IsDir(dirs, Parent(args.output_path))
          /\ report' = [exists |-> TRUE,
                        text |-> _format_results(research_result, args.query,
                                                 args.model, cost_info)]
          /\ writes' = writes + 1
          /\ result' = research_result
          /\ pc' = after_write
          /\ UNCHANGED raised
       \/ /\ Throw("OSError", "try")
          /\ UNCHANGED <<report, writes>>
    /\ UNCHANGED <<args, api_key, dirs, logfile, run, enhanced_query,
                   response_id, calls, status, polls, sleeps, usage,
                   research_result, cost_info, interrupted, exit_code, message>>
    /\ UNCHANGED srvVars

\* an interactive interruption arrives while conduct_research runs
Interrupt ==
    /\ pc \in {"setup", "enhance", "build", "submit", "poll", "sleep",
               "sleep_handler", "cost", "write"}
    /\ interrupted' = TRUE
    /\ Throw("KeyboardInterrupt",
             IF pc = "setup" THEN "setup"
             ELSE IF pc \in {"poll", "sleep"} THEN "poll_try"
             ELSE "try")
    /\ UNCHANGED <<args, api_key, dirs, logfile, report, run, enhanced_query,
                   response_id, calls, status, polls, sleeps, usage,
                   research_result, cost_info, writes, exit_code, message>>
    /\ UNCHANGED srvVars

\* main after asyncio.run: the message and the exit status
Finish ==
    /\ pc \in {"returned", "raised"}
    /\ pc' = "exit"
    /\ IF pc = "returned"
       THEN /\ exit_code' = exit_of_result(result)
            /\ message' = (IF exit_of_result(result) = 1
                           THEN "error" ELSE "Research completed successfully!")
       ELSE /\ exit_code' = exit_of_exception(raised)
            /\ message' = (IF exit_of_exception(raised) = 130
                           THEN "Research interrupted by user" ELSE "Unexpected error")
    /\ UNCHANGED <<args, api_key, dirs, logfile, report, run, enhanced_query,
                   response_id, calls, status, polls, sleeps, usage,
                   research_result, cost_info, writes, interrupted, raised,
                   result>>
    /\ UNCHANGED srvVars

\* the command is invoked again with the same command line
Restart ==
    /\ pc = "exit"
    /\ run < MaxRuns
    /\ run' = run + 1
    /\ pc' = "main"
    /\ enhanced_query' = None
    /\ response_id' = None
    /\ calls' = <<>>
    /\ status' = "none"
    /\ polls' = 0
    /\ sleeps' = 0
    /\ usage' = NoUsage
    /\ research_result' = None
    /\ cost_info' = NoCost
    /\ writes' = 0
    /\ interrupted' = FALSE
    /\ raised' = "none"
    /\ result' = None
    /\ exit_code' = -1
    /\ message' = "none"
    /\ UNCHANGED <<args, api_key, dirs, logfile, report>>
    /\ UNCHANGED srvVars

Next ==
    \/ Main
    \/ Setup
    \/ Enhance
    \/ Build
    \/ Submit
    \/ Poll
    \/ Sleep
    \/ Cost
    \/ Write
    \/ Interrupt
    \/ Finish
    \/ Restart

Spec == Init /\ [][Next]_vars

----------------------------------------------------------------------------
(* The deep_research tool of the protocol server *)

RECURSIVE Bullets(_)
\* "\n".join(f"- {inst}" for inst in instructions)
Bullets(instructions) ==
    IF Len(instructions) = 0 THEN <<>>
    ELSE IF Len(instructions) = 1 THEN <<Dash, " ">> \o instructions[1]
    ELSE <<Dash, " ">> \o instructions[1] \o <<NL>> \o Bullets(Tail(instructions))

_build_system_message(context, research_depth, domain_restrictions, output_format) ==
    LET instructions ==
            (IF Truthy(context) THEN << <<"Research context: ">> \o context >> ELSE <<>>)
            \o (IF Truthy(research_depth)
                THEN << <<"Research depth requirement: ">> \o research_depth >> ELSE <<>>)
            \o (IF Truthy(domain_restrictions)
                THEN << <<"Domain restrictions: ">> \o domain_restrictions >> ELSE <<>>)
            \o (IF Truthy(output_format)
                THEN << <<"Output format preference: ">> \o output_format >>
                ELSE << <<"Output format: Provide a comprehensive research report with clear citations">> >>)
    IN  <<"You are a comprehensive research assistant powered by OpenAI's DeepResearch. Your task is to conduct thorough, multi",
          Dash, "step research on the given topic, synthesizing information from web sources and providing citation",
          Dash, "rich reports.">>
        \o (IF Len(instructions) > 0
            THEN <<NL, NL, "Specific instructions:", NL>> \o Bullets(instructions)
            ELSE <<>>)
        \o <<NL, NL, "Ensure your research includes:", NL,
             Dash, " Multiple reliable sources", NL,
             Dash, " Proper citations and source links", NL,
             Dash, " Comprehensive analysis and synthesis", NL,
             Dash, " Clear, well", Dash, "structured output">>

\* `response.choices and response.choices[0].message.content`
has_content(response) == response.choices > 0 /\ Truthy(response.content)

\* `except Exception as e` of deep_research
ToolHandlerCatches(exc) == IsException(exc)

\* variant: the handler re-raises the exception it caught
tool_error_type_reraised(exc) == exc

\* the type of the exception the handler of deep_research raises for exc
tool_error_type(exc) == "McpError"

ToolQueries == {<<"climate">>, <<"Error:", " codes">>}

ToolOptions == {None, <<"hint">>}

\* the responses of the chat completion API: number of choices and the
\* content of the first one (None when it is None or empty)
ToolResponses ==
    { [choices |-> 0, content |-> None],
      [choices |-> 1, content |-> None],
      [choices |-> 1, content |-> <<"findings">>] }

InitServer ==
    /\ srv_pc = "start"
    /\ srv_args \in [query : ToolQueries, context : ToolOptions,
                     research_depth : ToolOptions, domain_restrictions : ToolOptions,
                     output_format : ToolOptions, ctx : BOOLEAN]
    /\ srv_request = [sent |-> FALSE, system |-> None, user |-> None]
    /\ srv_notes = <<>>
    /\ srv_out = [kind |-> "none", type |-> "none", text |-> None]
    /\ pc = "exit"
    /\ args = [query |-> None, context |-> None, focus |-> None, format_type |-> None,
               model |-> O4Mini, background |-> TRUE, enhance_prompt |-> TRUE,
               output_path |-> [abs |-> FALSE, parts |-> <<"r.md">>]]
    /\ api_key = TRUE
    /\ dirs = InitialDirs
    /\ logfile = FALSE
    /\ report = NoReport
    /\ run = MaxRuns
    /\ FreshInvocation

\* the notifications sent when ctx is given
Notify(notes) == IF srv_args.ctx THEN srv_notes \o notes ELSE srv_notes

\* deep_research before its try block
ToolStart ==
    /\ srv_pc = "start"
    /\ srv_notes' = Notify(<<"info: Starting DeepResearch for query">>)
    /\ srv_pc' = "try"
    /\ UNCHANGED <<srv_args, srv_request, srv_out>>
    /\ UNCHANGED cliVars

\* the outcome of deep_research when exc is raised in its try block
ToolRaise(exc) ==
    IF ToolHandlerCatches(exc)
    THEN [kind |-> "raise", type |-> tool_error_type(exc),
          text |-> <<"DeepResearch API error: ", exc>>]
    ELSE [kind |-> "raise", type |-> exc, text |-> <<exc>>]

\* the try block of deep_research and its handler
ToolRequest ==
    /\ srv_pc = "try"
    /\ srv_pc' = "done"
    /\ srv_request' = [sent |-> TRUE,
                       system |-> _build_system_message(srv_args.context,
                                      srv_args.research_depth,
                                      srv_args.domain_restrictions,
                                      srv_args.output_format),
                       user |-> srv_args.query]
    /\ \/ /\ srv_out' = ToolRaise("APIError")
          /\ srv_notes' = Notify(<<"debug: Using model", "debug: Sending request",
                                   "info: Research failed">>)
       \/ \E response \in ToolResponses :
          IF has_content(response)
          THEN /\ srv_out' = [kind |-> "return", type |-> "str", text |-> response.content]
               /\ srv_notes' = Notify(<<"debug: Using model", "debug: Sending request",
                                        "info: Research completed successfully",
                                        "debug: Research result length">>)
          ELSE /\ srv_out' = ToolRaise("McpError")
               /\ srv_notes' = Notify(<<"debug: Using model", "debug: Sending request",
                                        "info: Research completed successfully",
                                        "info: Research failed">>)
    /\ UNCHANGED srv_args
    /\ UNCHANGED cliVars

NextServer ==
    \/ ToolStart
    \/ ToolRequest

SpecServer == InitServer /\ [][NextServer]_vars

----------------------------------------------------------------------------
(* _calculate_cost on every usage record of the bounds *)

Counts == {Absent} \cup (0..MaxTok)

AllUsage ==
    { [present |-> ~(p = Absent /\ i = Absent /\ c = Absent /\ o = Absent
                     /\ d[1] = "absent" /\ x = Absent /\ t = Absent),
       prompt_tokens |-> p, input_tokens |-> i, completion_tokens |-> c,
       output_tokens |-> o, details |-> d[1], cached_tokens |-> d[2],
       input_details_cached |-> x, total_tokens |-> t] :
      p \in Counts, i \in Counts, c \in Counts, o \in Counts, t \in {Absent, MaxTok},
      d \in {<<"absent", Absent>>, <<"none", Absent>>} \cup ({"dict"} \X Counts),
      x \in {Absent, MaxTok} }

\* an invocation standing at one stage of conduct_research
AtStage(stage) ==
    /\ pc = stage
    /\ api_key = TRUE
    /\ logfile = TRUE
    /\ report = NoReport
    /\ run = MaxRuns
    /\ enhanced_query = args.query
    /\ response_id = <<"resp_1">>
    /\ calls = <<>>
    /\ status = "none"
    /\ polls = 0
    /\ sleeps = 0
    /\ writes = 0
    /\ interrupted = FALSE
    /\ raised = "none"
    /\ result = None
    /\ exit_code = -1
    /\ message = "none"
    /\ ServerIdle

InitCost ==
    /\ args \in { [query |-> <<"climate">>, context |-> None, focus |-> None,
                   format_type |-> None, model |-> m, background |-> FALSE,
                   enhance_prompt |-> FALSE,
                   output_path |-> [abs |-> TRUE, parts |-> <<"home", "r.md">>]] :
                  m \in Models \cup {Gpt5Mini} }
    /\ dirs = InitialDirs
    /\ usage \in AllUsage
    /\ research_result = <<"findings">>
    /\ cost_info = NoCost
    /\ AtStage("cost")

NextCost == Cost

SpecCost == InitCost /\ [][NextCost]_vars

----------------------------------------------------------------------------
(* _format_results on every text of the bounds *)

\* the texts of at most n tokens of an alphabet
Texts(alphabet, n) == UNION { [1..k -> alphabet] : k \in 0..n }

CostSamples ==
    { NoCost,
      _calculate_cost(NoUsage, UnpricedModel),
      _calculate_cost([NoUsage EXCEPT !.prompt_tokens = MaxTok, !.completion_tokens = 1,
                                      !.details = "dict", !.cached_tokens = 1], O3) }

InitFormat ==
    /\ args \in { [query |-> q, context |-> None, focus |-> None,
                   format_type |-> None, model |-> m, background |-> FALSE,
                   enhance_prompt |-> FALSE,
                   output_path |-> [abs |-> TRUE, parts |-> <<"home", "r.md">>]] :
                  q \in Texts({"q", Dash}, MaxTextLen),
                  m \in {O3, UnpricedModel, Rule, <<"m", NL>>} }
    /\ dirs = InitialDirs
    /\ usage = NoUsage
    /\ research_result \in Texts({"a", Dash, NL}, MaxTextLen)
    /\ cost_info \in CostSamples
    /\ AtStage("write")

NextFormat == Write

SpecFormat == InitFormat /\ [][NextFormat]_vars

----------------------------------------------------------------------------
(* Properties *)

\* C1: when the first status poll reports "failed", conduct_research returns
\* "Research failed" at once: it has not slept and has written no report,
\* and after a poll that reported "failed" the invocation neither polls nor
\* sleeps nor writes the report.
C1_FailedFirstPollReturnsAtOnce ==
    [][ /\ (status' = "failed" /\ polls' = 1) =>
              /\ pc' \in {"returned", "exit"}
              /\ result' = ResearchFailed
              /\ sleeps' = 0
              /\ writes' = 0
        /\ (status = "failed" /\ run' = run) =>
              /\ polls' = polls
              /\ sleeps' = sleeps
              /\ writes' = writes
              /\ calls' = calls
              /\ report' = report ]_vars

C1_Witness ==
    /\ pc = "exit"
    /\ args.background
    /\ status = "failed"
    /\ polls = 1
    /\ sleeps = 0
    /\ result = ResearchFailed

\* C2: when the polled job reported "failed", main prints an error message
\* and the process exits with status 1.
C2_JobFailureIsFatal ==
    (pc = "exit" /\ status = "failed") => (exit_code = 1 /\ message = "error")

\* C3: when the call of the auxiliary model raised, no exception left the
\* enhancement step, enhanced_query is the original query, and that query is
\* the input of the research request.
C3_EnhancementFallsBackToQuery ==
    (Len(calls) >= 1 /\ calls[1].op = "enhance" /\ calls[1].outcome = "raise") =>
        /\ enhanced_query = args.query
        /\ raised \in {"none", "KeyboardInterrupt"}
        /\ (Len(calls) = 1 /\ ~interrupted) => pc = "submit"
        /\ \A j \in 2..Len(calls) :
               calls[j].op = "create" => calls[j].input = args.query

C3_Witness ==
    /\ Len(calls) >= 2
    /\ calls[1].op = "enhance"
    /\ calls[1].outcome = "raise"
    /\ calls[2].op = "create"
    /\ calls[2].input = args.query
    /\ args.context # None

\* C4: for a model that is not in the price table the cost step raises
\* nothing and leaves conduct_research at the write of the report, with a
\* tagged failure as cost_info whenever there is a usage record; and the
\* report written for such a model holds the research text and no cost
\* section.
C4_UnpricedModelIsNotFatal ==
    [][ /\ (pc = "cost" /\ args.model \notin DOMAIN pricing /\ ~interrupted') =>
              /\ pc' = "write"
              /\ raised' = raised
              /\ result' = result
              /\ usage.present => cost_info'.kind = "error"
        /\ (args.model \notin DOMAIN pricing /\ writes' > writes) =>
              /\ report'.exists
              /\ Contains(report'.text, research_result)
              /\ ~Contains(report'.text, <<"## Token Usage & Cost">>) ]_vars

C4_Witness ==
    /\ args.model \notin DOMAIN pricing
    /\ usage.present
    /\ cost_info.kind = "error"
    /\ writes = 1
    /\ pc = "exit"
    /\ exit_code = 0

\* C5: for a model of the price table, the three costs returned by
\* _calculate_cost are the uncached input tokens, the cached tokens and the
\* output tokens of the usage record times their prices, total_cost is
\* their sum, and total_cost is not negative when the cached tokens do not
\* exceed the input tokens.
C5_CostFormula ==
    (pc = "write" /\ cost_info.kind = "ok") =>
        LET rate == pricing[args.model]
            c == cost_info
        IN  /\ args.model \in DOMAIN pricing
            /\ usage.prompt_tokens = Absent => c.input_tokens = Get(usage.input_tokens, 0)
            /\ usage.input_tokens = Absent => c.input_tokens = Get(usage.prompt_tokens, 0)
            /\ usage.completion_tokens = Absent => c.output_tokens = Get(usage.output_tokens, 0)
            /\ usage.output_tokens = Absent => c.output_tokens = Get(usage.completion_tokens, 0)
            /\ c.cached_tokens = (IF usage.details = "dict"
                                  THEN Get(usage.cached_tokens, 0) ELSE 0)
            /\ c.input_cost = (c.input_tokens - c.cached_tokens) * rate.input
            /\ c.cached_cost = c.cached_tokens * rate.cached_input
            /\ c.output_cost = c.output_tokens * rate.output
            /\ c.total_cost = c.input_cost + c.cached_cost + c.output_cost
            /\ c.cached_tokens <= c.input_tokens => c.total_cost >= 0

C5_Witness ==
    /\ pc = "write"
    /\ cost_info.kind = "ok"
    /\ cost_info.cached_tokens > 0
    /\ cost_info.cached_tokens < cost_info.input_tokens
    /\ cost_info.output_tokens > 0
    /\ cost_info.total_cost =
           cost_info.input_cost + cost_info.cached_cost + cost_info.output_cost
    /\ cost_info.cached_cost > 0

\* the last position at which the rule "---" occurs in text r (0 if none)
LastRule(r) ==
    IF \E k \in 1..Len(r) : OccursAt(r, Rule, k)
    THEN CHOOSE k \in 1..Len(r) :
             /\ OccursAt(r, Rule, k)
             /\ \A m \in (k + 1)..Len(r) : ~OccursAt(r, Rule, m)
    ELSE 0

\* the first position at which the rule "---" occurs in text r (0 if none)
FirstRule(r) ==
    IF \E k \in 1..Len(r) : OccursAt(r, Rule, k)
    THEN CHOOSE k \in 1..Len(r) :
             /\ OccursAt(r, Rule, k)
             /\ \A m \in 1..(k - 1) : ~OccursAt(r, Rule, m)
    ELSE 0

\* C6: the written report has a rule "---" that ends a header holding the
\* literal query and the literal model name; between that rule and the last
\* rule of the report stands the literal result text, set off by blank
\* lines; the rule that ends the header is the first rule of the report
\* unless the query or the model name holds one.
C6_ReportHoldsQueryModelAndText ==
    (pc = "returned" /\ writes = 1) =>
        LET r == report.text
            j == LastRule(r)
        IN  \E i \in 1..Len(r) :
                /\ OccursAt(r, Rule, i)
                /\ i < j
                /\ FirstRule(r) <= i
                /\ (~Contains(args.query, Rule) /\ ~Contains(args.model, Rule))
                       => FirstRule(r) = i
                /\ Contains(SubSeq(r, 1, i - 1), <<"**Query:** ">> \o args.query \o <<NL>>)
                /\ Contains(SubSeq(r, 1, i - 1), <<"**Model:** ">> \o args.model \o <<NL>>)
                /\ SubSeq(r, i + 3, j - 1) = <<NL, NL>> \o research_result \o <<NL, NL>>

C6_Witness ==
    /\ pc = "returned"
    /\ writes = 1
    /\ Contains(research_result, Rule)
    /\ Contains(args.query, Rule)
    /\ cost_info.kind = "ok"
    /\ SubSeq(report.text, LastRule(report.text) - 5, LastRule(report.text) - 1)
           = <<Dash, Dash, Dash, NL, NL>>

\* C7: whatever the destination path, the directory of the report exists
\* when the report is written and the set-up of the output directory and of
\* the log file raises nothing.
C7_DirectoryCreationSucceeds ==
    /\ writes > 0 => IsDir(dirs, Parent(args.output_path))
    /\ raised # "ValueError"

\* C8: an invocation writes the report at most once.
C8_ReportWrittenAtMostOnce == writes <= 1

C8_Witness ==
    /\ writes = 1
    /\ pc = "exit"
    /\ polls = MaxPolls
    /\ \E k \in 1..Len(calls) : calls[k].op = "retrieve" /\ calls[k].outcome = "raise"
    /\ \E k \in 1..Len(calls) : calls[k].op = "retrieve" /\ calls[k].outcome = "ok"

C10_InterruptionExits130 ==
    interrupted =>
        /\ pc \in {"raised", "exit"}
        /\ raised = "KeyboardInterrupt"
        /\ pc = "exit" => (exit_code = 130 /\ message = "Research interrupted by user")

C10_Witness ==
    /\ interrupted
    /\ pc = "exit"
    /\ exit_code = 130
    /\ polls >= 2
    /\ sleeps = polls - 1
    /\ status = "error"

\* C11: a status response without a status field, or a "completed" one
\* whose result text cannot be read, takes the invocation out of the poll
\* loop, and the process then exits with a nonzero status.
C11_MalformedResponseIsFatal ==
    /\ status = "nostatus" => pc \in {"returned", "raised", "exit"}
    /\ status = "completed" => pc \notin {"poll", "sleep", "sleep_handler"}
    /\ (pc = "exit" /\ status = "nostatus") => exit_code # 0

\* C12: a status poll that raised, or that saw neither "completed" nor
\* "failed", leaves the invocation in the poll loop, before a sleep, with
\* nothing returned and no report written; every sleep follows a poll that
\* has not been slept after, and every poll but the first follows a sleep,
\* so that polls and sleeps alternate; and the loop polls again after any
\* number of polling errors.
C12_PollingErrorIsNeverTerminal ==
    [][ /\ (polls' = polls + 1 /\ status' \in {"error", "nostatus", "in_progress"}) =>
              /\ pc' \in {"sleep", "sleep_handler"}
              /\ result' = None
              /\ raised' = "none"
              /\ writes' = 0
              /\ exit_code' = -1
        /\ polls' = polls + 1 => sleeps = polls
        /\ sleeps' = sleeps + 1 => (sleeps' = polls /\ pc' = "poll")
        /\ (pc = "poll" /\ polls < MaxPolls) => ENABLED Poll ]_vars

C12_Witness ==
    /\ pc = "sleep_handler"
    /\ polls = MaxPolls
    /\ sleeps = MaxPolls - 1
    /\ \A k \in 1..Len(calls) : calls[k].op = "retrieve" => calls[k].outcome = "raise"
    /\ result = None
    /\ writes = 0

\* C13: in background mode, once the poll loop has started and as long as
\* no interruption arrives, the invocation has left the poll loop (and goes
\* on to return) exactly when the latest poll observed "completed" or
\* "failed"; in particular it is still in the loop while every poll fails.
C13_LeavesLoopIffTerminalStatus ==
    (args.background /\ polls >= 1 /\ ~interrupted) =>
        (status \in {"completed", "failed"} <=> pc \notin {"poll", "sleep", "sleep_handler"})

\* the positions of the calls of one kind among the API calls made so far
CallsOf(op) == { k \in 1..Len(calls) : calls[k].op = op }

\* C14: the API calls of an invocation are, in order, one call of the
\* auxiliary model exactly when enhancement is enabled, one research
\* submission, and then the status polls, which occur in background mode
\* only, as many as counted, each for the handle the submission returned;
\* the cost is estimated and the report written only after a successful
\* submission and, in background mode, a poll that observed "completed",
\* and the report holds the result text so obtained.
C14_StagesInOrder ==
    /\ CallsOf("enhance") \subseteq {1}
    /\ Len(calls) >= 1 => (calls[1].op = "enhance" <=> args.enhance_prompt)
    /\ Cardinality(CallsOf("create")) <= 1
    /\ CallsOf("create") \subseteq (IF args.enhance_prompt THEN {2} ELSE {1})
    /\ pc \in {"poll", "sleep", "sleep_handler", "cost", "write"}
           => Cardinality(CallsOf("create")) = 1
    /\ Cardinality(CallsOf("retrieve")) = polls
    /\ ~args.background => polls = 0
    /\ \A k \in CallsOf("retrieve") :
           \E j \in CallsOf("create") :
               /\ j < k
               /\ calls[j].outcome = "ok"
               /\ calls[k].id = calls[j].id
               /\ calls[k].id = response_id
    /\ (pc \in {"cost", "write"} \/ writes > 0 \/ cost_info.kind # "none") =>
           /\ \E j \in CallsOf("create") : calls[j].outcome = "ok"
           /\ args.background => (polls >= 1 /\ status = "completed")
           /\ research_result \in ResultTexts
    /\ writes > 0 =>
           /\ pc \in {"returned", "exit"}
           /\ Contains(report.text, research_result)

C14_Witness ==
    /\ pc = "exit"
    /\ writes = 1
    /\ args.enhance_prompt
    /\ args.background
    /\ Len(calls) = 4
    /\ calls[1].op = "enhance"
    /\ calls[2].op = "create"
    /\ calls[3].op = "retrieve"
    /\ calls[4].op = "retrieve"
    /\ calls[4].id = <<"resp_2">>
    /\ cost_info.kind = "ok"

\* C15: when the process has exited, an invocation that wrote the report
\* and returned the research text has printed the success message and
\* exited with status 0, and exit status 1 means that no report was written.
C15_ExitStatusAgreesWithReport ==
    pc = "exit" =>
        /\ (writes = 1 /\ result = research_result) =>
               (exit_code = 0 /\ message = "Research completed successfully!")
        /\ exit_code = 1 => writes = 0

====
